---- MODULE Spec2Model ----
(***************************************************************************)
(* Model of the quiz engine of tools/auto_study_engine/quizme.py:          *)
(* deck validation, the answer matcher, the two-attempt question protocol  *)
(* and the session loop of iniciar_quiz with its exception handlers; of the *)
(* flashcard store of tools/auto_study_engine/flashcore.py (load, save,     *)
(* constructor); and of the list operations of                             *)
(* foundations/python_advanced/lista_compras.py.                           *)
(*                                                                         *)
(* Strings are sequences of one-character strings.  Points are counted in  *)
(* half points (1.0 point = 2, 0.5 point = 1) because the code's floats    *)
(* only ever take multiples of 0.5.                                        *)
(***************************************************************************)
EXTENDS Bags, FiniteSets, Integers, Sequences, TLC

\* ------------------------------------------------------------------ bounds
MaxDeck == 2
MaxLen == 3

\* ------------------------------------------------------------- the state
VARIABLES
    deck,                       \* the caller's deck (argument of iniciar_quiz)
    deck_es_lista,              \* isinstance(deck, list)
    archivo,                    \* content of the on-disk deck file
    estado,                     \* lifecycle of the session
    error,                      \* the QuizError reported by iniciar_quiz
    deck_mezclado,              \* session-local shuffled copy
    i,                          \* enumerate(deck_mezclado, 1) position
    pc,                         \* "presentar" | "esperando" | "fin"
    intento,                    \* attempt being waited for (1 or 2)
    puntuacion_total,           \* in half points
    correctas_primer_intento,
    correctas_segundo_intento,
    total_preguntas,
    resumen,                    \* arguments and output of mostrar_resumen_final
    \* history of the run (what was printed / read), for the properties
    presentadas,                \* cards whose question was printed, in order
    lecturas,                   \* answers read for the current question
    lecturas_total,             \* answers read in the session
    primera,                    \* first answer read for the current question
    ultima,                     \* result of the last ejecutar_pregunta call
    omitidas,                   \* questions skipped by "except Exception"
    interrumpido,               \* a KeyboardInterrupt was raised
    resumenes,                  \* number of final summaries printed
    \* the answer matcher applied on its own
    m_pc, m_usuario, m_correcta, m_resultado,
    \* the flashcard store
    dir_existe,                 \* the directory of the deck path exists
    ruta_con_dir,               \* os.path.dirname(nombre_archivo) is not ''
    cargadas,                   \* value returned by the last cargar_flashcards
    s_ultima,                   \* the last store call and how it ended
    guardado,                   \* deck of the last successful save, if on disk
    \* the shopping list
    lista,                      \* the list of items
    l_ultima,                   \* the last list call and how it ended
    menu,                       \* main's loop: "inactivo" | "activo" | "terminado"
    lista_archivo,              \* content of lista_compras.json
    descuentos,                 \* discounts applied so far
    menu_ultima,                \* the last menu iteration and what it reported
    \* the circle-area prompt
    r_pc,                       \* "inactivo" | "pidiendo" | "retornado"
    r_intento,                  \* obtener_radio_valido.intento
    r_entradas,                 \* the texts read by input(), in order
    r_retorno                   \* the value obtener_radio_valido returned

vars == <<deck, deck_es_lista, archivo, estado, error, deck_mezclado, i, pc,
          intento, puntuacion_total, correctas_primer_intento,
          correctas_segundo_intento, total_preguntas, resumen, presentadas,
          lecturas, lecturas_total, primera, ultima, omitidas, interrumpido,
          resumenes, m_pc, m_usuario, m_correcta, m_resultado,
          dir_existe, ruta_con_dir, cargadas, s_ultima, guardado,
          lista, l_ultima, menu, lista_archivo, descuentos, menu_ultima,
          r_pc, r_intento, r_entradas, r_retorno>>

quizVars == <<deck, deck_es_lista, archivo, estado, error, deck_mezclado, i, pc,
          intento, puntuacion_total, correctas_primer_intento,
          correctas_segundo_intento, total_preguntas, resumen, presentadas,
          lecturas, lecturas_total, primera, ultima, omitidas, interrumpido,
          resumenes>>

matcherVars == <<m_pc, m_usuario, m_correcta, m_resultado>>

storeVars == <<dir_existe, ruta_con_dir, cargadas, s_ultima, guardado>>

menuVars == <<menu, lista_archivo, descuentos, menu_ultima>>

listaVars == <<lista, l_ultima, menuVars>>

radioVars == <<r_pc, r_intento, r_entradas, r_retorno>>

\* the session's own state: everything of the quiz but the deck and the file
sesionVars == <<deck_es_lista, estado, error, deck_mezclado, i, pc, intento,
          puntuacion_total, correctas_primer_intento,
          correctas_segundo_intento, total_preguntas, resumen, presentadas,
          lecturas, lecturas_total, primera, ultima, omitidas, interrumpido,
          resumenes>>

\* ------------------------------------------------------------- strings
Alfabeto == {" ", "a", "A", "b"}

EsEspacio(c) == c = " "

\* str.lower() on one character
LowerChar(c) == IF c = "A" THEN "a" ELSE IF c = "B" THEN "b" ELSE c

Lower(s) == [k \in 1..Len(s) |-> LowerChar(s[k])]

RECURSIVE LStrip(_)
LStrip(s) ==
    IF s = <<>> THEN s
    ELSE IF EsEspacio(Head(s)) THEN LStrip(Tail(s)) ELSE s

RECURSIVE RStrip(_)
RStrip(s) ==
    IF s = <<>> THEN s
    ELSE IF EsEspacio(s[Len(s)]) THEN RStrip(SubSeq(s, 1, Len(s) - 1)) ELSE s

\* str.strip()
Strip(s) == RStrip(LStrip(s))

RECURSIVE StringsUpTo(_)
StringsUpTo(n) ==
    IF n = 0 THEN {<<>>}
    ELSE LET prev == StringsUpTo(n - 1)
         IN  prev \cup {Append(s, c) : s \in {t \in prev : Len(t) = n - 1}, c \in Alfabeto}

\* s[k..k+Len(t)-1] = t for some k  (Python's "t in s")
Contiene(s, t) ==
    \E k \in 1..(Len(s) - Len(t) + 1) : SubSeq(s, k, k + Len(t) - 1) = t

\* ------------------------------------------------------- answer matcher
ProcesarContencion(respuesta_usuario, respuesta_correcta) ==
    Contiene(Lower(Strip(respuesta_correcta)), Lower(Strip(respuesta_usuario)))

procesar_respuesta_usuario(respuesta_usuario, respuesta_correcta) ==
    LET respuesta_usuario_norm == Lower(Strip(respuesta_usuario))
        respuesta_correcta_norm == Lower(Strip(respuesta_correcta))
    IN  respuesta_usuario_norm = respuesta_correcta_norm

\* ------------------------------------------------------------ flashcards
Campos == {"pregunta", "respuesta", "categoria", "explicacion"}

Str(s) == [es_str |-> TRUE, s |-> s]
NoStr == [es_str |-> FALSE, s |-> <<>>]      \* a value that is not a str

Dict(kv) == [es_dict |-> TRUE, kv |-> kv]
NoDict == [es_dict |-> FALSE, kv |-> [c \in {} |-> NoStr]]

Tiene(flashcard, campo) == campo \in DOMAIN flashcard.kv

\* flashcard.get(campo, '')
Get(flashcard, campo) ==
    IF Tiene(flashcard, campo) THEN flashcard.kv[campo] ELSE Str(<<>>)

CartaA ==
    Dict([c \in {"pregunta", "respuesta", "categoria"} |->
            CASE c = "pregunta" -> Str(<<"a", "b">>)
              [] c = "respuesta" -> Str(<<"A", " ">>)
              [] OTHER -> Str(<<"b">>)])

CartaB ==
    Dict([c \in Campos |->
            CASE c = "pregunta" -> Str(<<"b">>)
              [] c = "respuesta" -> Str(<<"b">>)
              [] c = "categoria" -> Str(<<"a">>)
              [] OTHER -> Str(<<"a", "b">>)])

CartaCategoriaVacia ==
    Dict([c \in {"pregunta", "respuesta", "categoria"} |->
            CASE c = "pregunta" -> Str(<<"a">>)
              [] c = "respuesta" -> Str(<<"a">>)
              [] OTHER -> Str(<<" ">>)])

CartaSinCategoria ==
    Dict([c \in {"pregunta", "respuesta"} |-> Str(<<"a">>)])

CartaRespuestaBlanca ==
    Dict([c \in {"pregunta", "respuesta", "categoria"} |->
            IF c = "respuesta" THEN Str(<<" ">>) ELSE Str(<<"a">>)])

CartaPreguntaNoStr ==
    Dict([c \in {"pregunta", "respuesta", "categoria"} |->
            IF c = "pregunta" THEN NoStr ELSE Str(<<"a">>)])

Cartas == {CartaA, CartaB, CartaCategoriaVacia, CartaSinCategoria,
           CartaRespuestaBlanca, CartaPreguntaNoStr, NoDict}

\* what the operator types at a prompt
Entradas == {<<"a">>, <<" ", "b">>, <<"a", "b">>}

\* ------------------------------------------------------- deck validation
NoError == [tipo |-> "ok", indice |-> -1, campo |-> ""]

QuizError(tipo, indice, campo) == [tipo |-> tipo, indice |-> indice, campo |-> campo]

EsStrNoVacio(v) == v.es_str /\ Strip(v.s) # <<>>

validar_flashcard(flashcard, indice) ==
    IF ~Tiene(flashcard, "pregunta") THEN QuizError("campo_requerido", indice, "pregunta")
    ELSE IF ~Tiene(flashcard, "respuesta") THEN QuizError("campo_requerido", indice, "respuesta")
    ELSE IF ~Tiene(flashcard, "categoria") THEN QuizError("campo_requerido", indice, "categoria")
    ELSE IF ~EsStrNoVacio(flashcard.kv["pregunta"]) THEN QuizError("invalida", indice, "pregunta")
    ELSE IF ~EsStrNoVacio(flashcard.kv["respuesta"]) THEN QuizError("invalida", indice, "respuesta")
    ELSE NoError

\* the loop "for i, flashcard in enumerate(deck)", from 0-based index k
RECURSIVE ValidarDesde(_, _)
ValidarDesde(d, k) ==
    IF k >= Len(d) THEN NoError
    ELSE IF ~d[k + 1].es_dict THEN QuizError("no_dict", k, "")
    ELSE LET e == validar_flashcard(d[k + 1], k)
         IN  IF e # NoError THEN e ELSE ValidarDesde(d, k + 1)

ValidarSinDeckVacio(d, es_lista) ==
    IF ~es_lista THEN QuizError("no_lista", -1, "")
    ELSE ValidarDesde(d, 0)

ValidarDeck(d, es_lista) ==
    IF Len(d) = 0 THEN QuizError("deck_vacio", -1, "")
    ELSE IF ~es_lista THEN QuizError("no_lista", -1, "")
    ELSE ValidarDesde(d, 0)

\* --------------------------------------------------------------- shuffle
Permutaciones(n) ==
    {p \in [1..n -> 1..n] : \A a, b \in 1..n : p[a] = p[b] => a = b}

Reordenar(d, p) == [k \in 1..Len(d) |-> d[p[k]]]

MuestrasConReemplazo(d) == {Reordenar(d, p) : p \in [1..Len(d) -> 1..Len(d)]}

\* deck_mezclado = deck.copy(); random.shuffle(deck_mezclado)
Mezclas(d) == {Reordenar(d, p) : p \in Permutaciones(Len(d))}

MezclaEnSitio(d, mezclado) == mezclado

\* the caller's list after "deck.copy()" and the shuffle of the copy
DeckTrasMezcla(d, mezclado) == d

\* -------------------------------------------------- question protocol
PuntosPrimerIntento == 2
PuntosSegundoIntento == 1
PuntosIncorrecto == 0

PuntosSiempreEnteros(n) == PuntosPrimerIntento

\* points returned when attempt n matches
PuntosPorIntento(n) == IF n = 1 THEN PuntosPrimerIntento ELSE PuntosSegundoIntento

SiempreOtroIntento(n) == TRUE

\* after a failed attempt n, is another answer read?
QuedaIntento(n) == n = 1

NoResultado == [puntos |-> -1, fue_correcta |-> FALSE, r1 |-> <<>>, r2 |-> <<>>,
                leidas |-> 0, respuesta |-> <<>>, explicacion_mostrada |-> FALSE]

\* "if explicacion: print(...)"
MuestraExplicacion(flashcard) == Get(flashcard, "explicacion").s # <<>>

ContadoresSinMirarPuntos(puntos, fue_correcta, c1, c2) ==
    IF fue_correcta THEN <<c1 + 1, c2>> ELSE <<c1, c2>>

\* counters after one scored question (lines 206-209)
Contadores(puntos, fue_correcta, c1, c2) ==
    IF fue_correcta /\ puntos = PuntosPrimerIntento THEN <<c1 + 1, c2>>
    ELSE IF fue_correcta /\ puntos = PuntosSegundoIntento THEN <<c1, c2 + 1>>
    ELSE <<c1, c2>>

\* ------------------------------------------------------- final summary
UmbralExcelente == 90
UmbralBueno == 70
UmbralMejorable == 50

\* porcentaje = (puntuacion_total / total_preguntas) * 100, compared exactly:
\* porcentaje >= u  <=>  half_points * 50 >= u * total_preguntas
PorcentajeAlMenos(puntos2, total, u) ==
    IF total > 0 THEN puntos2 * 50 >= u * total ELSE 0 >= u

mostrar_resumen_final(puntos2, total, correctas, parcialmente_correctas) ==
    [puntuacion_total |-> puntos2,
     total_preguntas |-> total,
     correctas |-> correctas,
     parcialmente_correctas |-> parcialmente_correctas,
     incorrectas |-> total - correctas - parcialmente_correctas,
     banda |-> IF PorcentajeAlMenos(puntos2, total, UmbralExcelente) THEN "excelente"
               ELSE IF PorcentajeAlMenos(puntos2, total, UmbralBueno) THEN "buen_trabajo"
               ELSE IF PorcentajeAlMenos(puntos2, total, UmbralMejorable) THEN "puedes_mejorar"
               ELSE "sigue_estudiando"]

NoResumen == [puntuacion_total |-> -1, total_preguntas |-> -1, correctas |-> -1,
              parcialmente_correctas |-> -1, incorrectas |-> -1, banda |-> ""]

\* ---------------------------------------------------- exception handlers
Excepciones == {"KeyboardInterrupt", "EOFError"}

ManejarTodoComoReturn(exc) == "return"

ManejarSinInterrupcion(exc) ==
    IF exc = "KeyboardInterrupt" THEN "propagate" ELSE "continue"

\* the handlers of the per-question try (lines 211-217)
ManejarExcepcion(exc) ==
    IF exc = "KeyboardInterrupt" THEN "return" ELSE "continue"

\* ------------------------------------------------- the deck file (JSON)
NoMeta == [version |-> "", card_count |-> -1]

\* a JSON array of entries
JLista(items) == [tipo |-> "lista", items |-> items, meta |-> NoMeta]

\* {"metadata": {"version": "1.0", "card_count": N, ...}, "cards": [...]}
JSobre(items) ==
    [tipo |-> "sobre", items |-> items,
     meta |-> [version |-> "1.0", card_count |-> Len(items)]]

\* a JSON document that is neither an array nor an envelope
JOtro == [tipo |-> "otro", items |-> <<>>, meta |-> NoMeta]

\* the file exists but does not hold valid JSON
Corrupto == [tipo |-> "corrupto", items |-> <<>>, meta |-> NoMeta]

\* there is no file at the path
Ausente == [tipo |-> "ausente", items |-> <<>>, meta |-> NoMeta]

\* ------------------------------------------------------ flashcard store
\* isinstance(item, dict) and all(key in item for key in [...])
EsFlashcardValida(item) ==
    /\ item.es_dict
    /\ \A key \in {"pregunta", "respuesta", "categoria"} : Tiene(item, key)

RECURSIVE ValidarHastaPrimerFallo(_)
ValidarHastaPrimerFallo(datos) ==
    IF datos = <<>> THEN <<>>
    ELSE IF EsFlashcardValida(Head(datos))
         THEN <<Head(datos)>> \o ValidarHastaPrimerFallo(Tail(datos))
         ELSE <<>>

\* the loop of lines 49-54 over the entries of the array
RECURSIVE FlashcardsValidadas(_)
FlashcardsValidadas(datos) ==
    IF datos = <<>> THEN <<>>
    ELSE IF EsFlashcardValida(Head(datos))
         THEN <<Head(datos)>> \o FlashcardsValidadas(Tail(datos))
         ELSE FlashcardsValidadas(Tail(datos))

ErroresCarga == {"", "PermissionError", "Exception"}

\* what open() + json.load() raise on the file, "" when they return
ErrorDeLectura(f, fallo) ==
    IF f.tipo = "ausente" THEN "FileNotFoundError"
    ELSE IF fallo # "" THEN fallo
    ELSE IF f.tipo = "corrupto" THEN "JSONDecodeError"
    ELSE ""

RelanzaJSONDecodeError(exc) ==
    IF exc = "JSONDecodeError" THEN "raise" ELSE "lista_vacia"

\* the except clauses of cargar_flashcards (lines 58-77)
ManejarErrorCarga(exc) == "lista_vacia"

\* lines 43-56: the value returned once json.load has succeeded
DatosCargados(f) ==
    IF f.tipo # "lista" THEN <<>> ELSE FlashcardsValidadas(f.items)

ErroresGuardado == {"", "PermissionError", "OSError", "TypeError"}

SerializarConSobre(flashcards) == JSobre(flashcards)

\* json.dump(flashcards, archivo, indent=4, ensure_ascii=False)
Serializar(flashcards) == JLista(flashcards)

RelanzaOSError(exc) == IF exc = "OSError" THEN "raise" ELSE "False"

\* the except clauses of guardar_flashcards (lines 106-124)
ManejarErrorGuardado(exc) == "False"

\* "if directorio and not os.path.exists(directorio)"
DebeCrearDirectorio(con_dir, existe) == con_dir /\ ~existe

NoCarta == Dict([c \in {} |-> NoStr])

\* crear_flashcard: the ValueError raised, or the card built
crear_flashcard(pregunta, respuesta, categoria) ==
    IF Strip(pregunta) = <<>> THEN [excepcion |-> "ValueError", carta |-> NoCarta]
    ELSE IF Strip(respuesta) = <<>> THEN [excepcion |-> "ValueError", carta |-> NoCarta]
    ELSE IF Strip(categoria) = <<>> THEN [excepcion |-> "ValueError", carta |-> NoCarta]
    ELSE [excepcion |-> "",
          carta |-> Dict([c \in {"pregunta", "respuesta", "categoria"} |->
                            CASE c = "pregunta" -> Str(Strip(pregunta))
                              [] c = "respuesta" -> Str(Strip(respuesta))
                              [] OTHER -> Str(Strip(categoria))])]

\* arguments given to crear_flashcard
TextosPregunta == {<<>>, <<" ", "a">>, <<"b">>}
TextosRespuesta == {<<" ">>, <<"a", " ">>}
TextosCategoria == {<<>>, <<"b">>}

NoLlamada == [op |-> "", fallo |-> "", resultado |-> FALSE, excepcion |-> "",
              dir_antes |-> FALSE, escrito |-> FALSE, args |-> <<>>]

NoGuardado == [ok |-> FALSE, deck |-> <<>>]

StoreIdle ==
    /\ dir_existe = TRUE
    /\ ruta_con_dir = TRUE
    /\ cargadas = <<>>
    /\ s_ultima = NoLlamada
    /\ guardado = NoGuardado

\* --------------------------------------------------- shopping list
\* prices are in thousandths of the currency unit
MaxItems == 2

EsLetra(c) == c \in {"a", "A", "b", "B"}

UpperChar(c) == IF c = "a" THEN "A" ELSE IF c = "b" THEN "B" ELSE c

\* str.title(): first letter of each word upper case, the others lower case
Title(s) ==
    [k \in 1..Len(s) |->
        IF ~EsLetra(s[k]) THEN s[k]
        ELSE IF k = 1 \/ ~EsLetra(s[k - 1]) THEN UpperChar(s[k])
        ELSE LowerChar(s[k])]

\* round(x, 2): the nearest hundredth; when x lies half way the result
\* depends on the binary representation of the float, so either neighbour
Round2(p) ==
    LET abajo == (p \div 10) * 10
        resto == p % 10
    IN  IF resto = 0 THEN {p}
        ELSE IF resto < 5 THEN {abajo}
        ELSE IF resto > 5 THEN {abajo + 10}
        ELSE {abajo, abajo + 10}

Nombres == {<<"a">>, <<" ", "b", "A">>}
Precios == {-1500, 0, 1005, 1500}
Cantidades == {-1, 0, 1, 2}

NuevoItem(nombre, precio, cantidad) ==
    [nombre |-> nombre, precio |-> precio, cantidad |-> cantidad]

AgregarSinMinimoDeCantidad(l, nombre, precio, cantidad) ==
    IF precio < 0 \/ cantidad < 0
    THEN {[excepcion |-> "ValueError", lista |-> l]}
    ELSE {[excepcion |-> "",
           lista |-> Append(l, NuevoItem(Title(Strip(nombre)), r, cantidad))] :
                r \in Round2(precio)}

\* agregar_item: the outcomes of one call (exception raised, list afterwards)
agregar_item(l, nombre, precio, cantidad) ==
    IF precio < 0 THEN {[excepcion |-> "ValueError", lista |-> l]}
    ELSE IF cantidad < 1 THEN {[excepcion |-> "ValueError", lista |-> l]}
    ELSE {[excepcion |-> "",
           lista |-> Append(l, NuevoItem(Title(Strip(nombre)), r, cantidad))] :
                r \in Round2(precio)}

\* list.pop(indice): negative indices count from the end
ListaPop(l, indice) ==
    IF indice < -Len(l) \/ indice >= Len(l)
    THEN [excepcion |-> "IndexError", lista |-> l]
    ELSE LET pos == (IF indice < 0 THEN indice + Len(l) ELSE indice) + 1
         IN  [excepcion |-> "",
              lista |-> SubSeq(l, 1, pos - 1) \o SubSeq(l, pos + 1, Len(l))]

EliminarSinGuardaNegativa(l, indice) ==
    IF indice >= Len(l) THEN [excepcion |-> "IndexError", lista |-> l]
    ELSE ListaPop(l, indice)

\* eliminar_item: the outcome of one call
eliminar_item(l, indice) ==
    IF indice < 0 \/ indice >= Len(l)
    THEN [excepcion |-> "IndexError", lista |-> l]
    ELSE ListaPop(l, indice)

RECURSIVE SumaDesde(_, _)
\* sum(...) over the generator: a left fold from the start value
SumaDesde(acumulado, l) ==
    IF l = <<>> THEN acumulado
    ELSE SumaDesde(acumulado + Head(l).precio * Head(l).cantidad, Tail(l))

RECURSIVE SumaDePrecios(_, _)
SumaDePrecios(acumulado, l) ==
    IF l = <<>> THEN acumulado
    ELSE SumaDePrecios(acumulado + Head(l).precio, Tail(l))

TotalSinCantidad(l) == [total |-> SumaDePrecios(0, l), lista |-> l]

\* calcular_total: the value returned and the list afterwards
calcular_total(l) == [total |-> SumaDesde(0, l), lista |-> l]

NoArgs == [nombre |-> <<>>, precio |-> 0, cantidad |-> 0, indice |-> 0]

NoLlamadaLista == [op |-> "", args |-> NoArgs, excepcion |-> "", total |-> 0]

\* a line typed by the user where a number is asked for
TextoNum(v) == [numerico |-> TRUE, valor |-> v]

\* a text float() and int() reject
TextoNoNum == [numerico |-> FALSE, valor |-> 0]

NoArchivoLista == [existe |-> FALSE, items |-> <<>>]

NoIteracion == [opcion |-> "", numero |-> TextoNoNum, porcentaje |-> TextoNoNum,
                informe |-> "", total |-> 0]

MenuIdle ==
    /\ menu = "inactivo"
    /\ lista_archivo = NoArchivoLista
    /\ descuentos = 0
    /\ menu_ultima = NoIteracion

ListaIdle ==
    /\ lista = <<>>
    /\ l_ultima = NoLlamadaLista
    /\ MenuIdle

NoRetorno == [tipo |-> "", pi |-> 0, uno |-> 0]

RadioIdle ==
    /\ r_pc = "inactivo"
    /\ r_intento = 0
    /\ r_entradas = <<>>
    /\ r_retorno = NoRetorno

\* ------------------------------------------------------------------ Init
RECURSIVE DecksUpTo(_)
DecksUpTo(n) ==
    IF n = 0 THEN {<<>>}
    ELSE LET prev == DecksUpTo(n - 1)
         IN  prev \cup {Append(d, c) : d \in {t \in prev : Len(t) = n - 1}, c \in Cartas}

QuizIdle ==
    /\ estado = "NotStarted"
    /\ error = NoError
    /\ deck_mezclado = <<>>
    /\ i = 0
    /\ pc = "inicio"
    /\ intento = 0
    /\ puntuacion_total = 0
    /\ correctas_primer_intento = 0
    /\ correctas_segundo_intento = 0
    /\ total_preguntas = 0
    /\ resumen = NoResumen
    /\ presentadas = <<>>
    /\ lecturas = 0
    /\ lecturas_total = 0
    /\ primera = <<>>
    /\ ultima = NoResultado
    /\ omitidas = 0
    /\ interrumpido = FALSE
    /\ resumenes = 0

MatcherIdle ==
    /\ m_pc = "idle"
    /\ m_usuario = <<>>
    /\ m_correcta = <<>>
    /\ m_resultado = FALSE

Init ==
    /\ deck \in DecksUpTo(MaxDeck)
    /\ deck_es_lista \in BOOLEAN
    /\ archivo = Serializar(deck)
    /\ QuizIdle
    /\ MatcherIdle
    /\ StoreIdle
    /\ ListaIdle
    /\ RadioIdle

\* --------------------------------------------------------------- actions
\* end of the for loop: mostrar_resumen_final (lines 219-221)
Terminar(p2, c1, c2, total) ==
    /\ estado' = "Completed"
    /\ pc' = "fin"
    /\ resumen' = mostrar_resumen_final(p2, total, c1, c2)
    /\ resumenes' = resumenes + 1

\* next iteration of "for i, flashcard in enumerate(deck_mezclado, 1)"
Avanzar(p2, c1, c2) ==
    /\ puntuacion_total' = p2
    /\ correctas_primer_intento' = c1
    /\ correctas_segundo_intento' = c2
    /\ IF i < total_preguntas
       THEN /\ i' = i + 1
            /\ pc' = "presentar"
            /\ UNCHANGED <<estado, resumen, resumenes>>
       ELSE /\ i' = i
            /\ Terminar(p2, c1, c2, total_preguntas)

\* iniciar_quiz up to the first question: validation, copy, shuffle, counters
IniciarQuiz ==
    /\ estado = "NotStarted"
    /\ LET e == ValidarDeck(deck, deck_es_lista)
       IN  IF e # NoError
           THEN /\ estado' = "ValidationFailed"
                /\ error' = e
                /\ pc' = "fin"
                /\ UNCHANGED <<deck, deck_mezclado, i, puntuacion_total,
                               correctas_primer_intento, correctas_segundo_intento,
                               total_preguntas, resumen, resumenes>>
           ELSE \E mezclado \in Mezclas(deck) :
                /\ deck_mezclado' = mezclado
                /\ deck' = DeckTrasMezcla(deck, mezclado)
                /\ puntuacion_total' = 0
                /\ correctas_primer_intento' = 0
                /\ correctas_segundo_intento' = 0
                /\ total_preguntas' = Len(mezclado)
                /\ error' = error
                /\ IF Len(mezclado) > 0
                   THEN /\ estado' = "InProgress"
                        /\ i' = 1
                        /\ pc' = "presentar"
                        /\ UNCHANGED <<resumen, resumenes>>
                   ELSE /\ i' = 0
                        /\ Terminar(0, 0, 0, 0)
    /\ UNCHANGED <<deck_es_lista, archivo, intento, presentadas, lecturas,
                   lecturas_total, primera, ultima, omitidas, interrumpido>>
    /\ UNCHANGED <<matcherVars, storeVars, listaVars, radioVars>>

\* ejecutar_pregunta up to the first input(): the question is printed
PresentarPregunta ==
    /\ estado = "InProgress"
    /\ pc = "presentar"
    /\ presentadas' = Append(presentadas, deck_mezclado[i])
    /\ lecturas' = 0
    /\ primera' = <<>>
    /\ intento' = 1
    /\ pc' = "esperando"
    /\ UNCHANGED <<deck, deck_es_lista, archivo, estado, error, deck_mezclado, i,
                   puntuacion_total, correctas_primer_intento,
                   correctas_segundo_intento, total_preguntas, resumen,
                   lecturas_total, ultima, omitidas, interrumpido, resumenes>>
    /\ UNCHANGED <<matcherVars, storeVars, listaVars, radioVars>>

\* ejecutar_pregunta returns (puntos, fue_correcta); lines 203-209 and the loop
Puntuar(puntos, fue_correcta, r) ==
    LET c == Contadores(puntos, fue_correcta, correctas_primer_intento,
                        correctas_segundo_intento)
    IN  /\ ultima' = [puntos |-> puntos,
                      fue_correcta |-> fue_correcta,
                      r1 |-> IF lecturas = 0 THEN r ELSE primera,
                      r2 |-> IF lecturas = 0 THEN <<>> ELSE r,
                      leidas |-> lecturas + 1,
                      respuesta |-> deck_mezclado[i].kv["respuesta"].s,
                      explicacion_mostrada |-> MuestraExplicacion(deck_mezclado[i])]
        /\ Avanzar(puntuacion_total + puntos, c[1], c[2])
        /\ UNCHANGED <<intento, primera>>

\* one input() returns: the answer is stripped and matched
LeerRespuesta(entrada) ==
    /\ estado = "InProgress"
    /\ pc = "esperando"
    /\ LET respuesta_correcta == deck_mezclado[i].kv["respuesta"].s
           respuesta_usuario == Strip(entrada)
       IN  /\ lecturas' = lecturas + 1
           /\ lecturas_total' = lecturas_total + 1
           /\ IF procesar_respuesta_usuario(respuesta_usuario, respuesta_correcta)
              THEN Puntuar(PuntosPorIntento(intento), TRUE, respuesta_usuario)
              ELSE IF QuedaIntento(intento)
              THEN /\ intento' = intento + 1
                   /\ primera' = respuesta_usuario
                   /\ UNCHANGED <<estado, i, pc, puntuacion_total,
                                  correctas_primer_intento, correctas_segundo_intento,
                                  resumen, resumenes, ultima>>
              ELSE Puntuar(PuntosIncorrecto, FALSE, respuesta_usuario)
    /\ UNCHANGED <<deck, deck_es_lista, archivo, error, deck_mezclado,
                   total_preguntas, presentadas, omitidas, interrumpido>>
    /\ UNCHANGED <<matcherVars, storeVars, listaVars, radioVars>>

\* input() raises instead of returning
Excepcion(exc) ==
    /\ estado = "InProgress"
    /\ pc = "esperando"
    /\ interrumpido' = (interrumpido \/ exc = "KeyboardInterrupt")
    /\ omitidas' = IF exc = "KeyboardInterrupt" THEN omitidas ELSE omitidas + 1
    /\ LET h == ManejarExcepcion(exc)
       IN  CASE h = "return" ->
                  /\ estado' = "Aborted"
                  /\ pc' = "fin"
                  /\ UNCHANGED <<i, puntuacion_total, correctas_primer_intento,
                                 correctas_segundo_intento, resumen, resumenes>>
             [] h = "continue" ->
                  Avanzar(puntuacion_total, correctas_primer_intento,
                          correctas_segundo_intento)
             [] OTHER ->
                  \* neither "except QuizError" nor "except Exception" catches it
                  /\ estado' = "Propagated"
                  /\ pc' = "fin"
                  /\ UNCHANGED <<i, puntuacion_total, correctas_primer_intento,
                                 correctas_segundo_intento, resumen, resumenes>>
    /\ UNCHANGED <<deck, deck_es_lista, archivo, error, deck_mezclado, intento,
                   total_preguntas, presentadas, lecturas, lecturas_total,
                   primera, ultima>>
    /\ UNCHANGED <<matcherVars, storeVars, listaVars, radioVars>>

Next ==
    \/ IniciarQuiz
    \/ PresentarPregunta
    \/ \E entrada \in Entradas : LeerRespuesta(entrada)
    \/ \E exc \in Excepciones : Excepcion(exc)

Spec == Init /\ [][Next]_vars

\* the program takes its next step, and every input() eventually returns or
\* raises: the operator answers each prompt
FairSpec == Spec /\ WF_vars(Next)

\* ------------------------------------- the matcher applied on its own
InitMatcher ==
    /\ deck = <<>>
    /\ deck_es_lista = TRUE
    /\ archivo = Ausente
    /\ QuizIdle
    /\ StoreIdle
    /\ ListaIdle
    /\ RadioIdle
    /\ m_pc = "call"
    /\ m_usuario \in StringsUpTo(MaxLen)
    /\ m_correcta \in StringsUpTo(MaxLen)
    /\ m_resultado = FALSE

Comparar ==
    /\ m_pc = "call"
    /\ m_resultado' = procesar_respuesta_usuario(m_usuario, m_correcta)
    /\ m_pc' = "done"
    /\ UNCHANGED <<m_usuario, m_correcta>>
    /\ UNCHANGED <<quizVars, storeVars, listaVars, radioVars>>

NextMatcher == Comparar

SpecMatcher == InitMatcher /\ [][NextMatcher]_vars

\* ------------------------------------------------ the flashcard store
ArchivosIniciales ==
    {Ausente, Corrupto, JOtro}
        \cup {JLista(d) : d \in DecksUpTo(MaxDeck)}
        \cup {JSobre(d) : d \in DecksUpTo(MaxDeck)}

InitStore ==
    /\ deck = <<>>
    /\ deck_es_lista = TRUE
    /\ QuizIdle
    /\ MatcherIdle
    /\ ruta_con_dir \in BOOLEAN
    /\ dir_existe \in (IF ruta_con_dir THEN BOOLEAN ELSE {TRUE})
    /\ archivo \in (IF dir_existe THEN ArchivosIniciales ELSE {Ausente})
    /\ cargadas = <<>>
    /\ s_ultima = NoLlamada
    /\ guardado = NoGuardado
    /\ ListaIdle
    /\ RadioIdle

\* the caller builds its deck with crear_flashcard (lines 190-194)
CrearFlashcard(pregunta, respuesta, categoria) ==
    /\ Len(deck) < MaxDeck
    /\ LET r == crear_flashcard(pregunta, respuesta, categoria)
       IN  /\ deck' = IF r.excepcion = "" THEN Append(deck, r.carta) ELSE deck
           /\ s_ultima' = [op |-> "crear", fallo |-> "", resultado |-> r.excepcion = "",
                           excepcion |-> r.excepcion, dir_antes |-> dir_existe,
                           escrito |-> FALSE,
                           args |-> <<pregunta, respuesta, categoria>>]
    /\ UNCHANGED <<archivo, dir_existe, ruta_con_dir, cargadas, guardado>>
    /\ UNCHANGED <<sesionVars, matcherVars, listaVars, radioVars>>

\* where the environment makes a system call of guardar_flashcards fail
FallosGuardado ==
    {[exc |-> "", donde |-> ""]}
        \cup {[exc |-> e, donde |-> d] :
                e \in {"PermissionError", "OSError"}, d \in {"makedirs", "open", "dump"}}
        \cup {[exc |-> "TypeError", donde |-> "dump"]}

\* guardar_flashcards(deck, nombre_archivo), the whole call
Guardar(fallo) ==
    LET crear == DebeCrearDirectorio(ruta_con_dir, dir_existe)
        exc_makedirs == IF crear /\ fallo.donde = "makedirs" THEN fallo.exc ELSE ""
        dir_despues == IF crear /\ exc_makedirs = "" THEN TRUE ELSE dir_existe
        exc_open ==
            IF exc_makedirs # "" THEN exc_makedirs
            ELSE IF ruta_con_dir /\ ~dir_despues THEN "FileNotFoundError"
            ELSE IF fallo.donde = "open" THEN fallo.exc
            ELSE ""
        abierto == exc_open = ""
        exc == IF ~abierto THEN exc_open
               ELSE IF fallo.donde = "dump" THEN fallo.exc ELSE ""
        inyectado == IF fallo.donde = "makedirs" /\ ~crear THEN "" ELSE fallo.exc
    IN  /\ dir_existe' = dir_despues
        /\ archivo' = IF ~abierto THEN archivo
                      ELSE IF exc # "" THEN Corrupto
                      ELSE Serializar(deck)
        /\ guardado' = IF ~abierto THEN guardado
                       ELSE IF exc # "" THEN NoGuardado
                       ELSE [ok |-> TRUE, deck |-> deck]
        /\ s_ultima' = [op |-> "guardar",
                        fallo |-> inyectado,
                        resultado |-> exc = "",
                        excepcion |-> IF exc # "" /\ ManejarErrorGuardado(exc) = "raise"
                                      THEN exc ELSE "",
                        dir_antes |-> dir_existe,
                        escrito |-> abierto /\ exc = "",
                        args |-> <<>>]
        /\ UNCHANGED <<deck, ruta_con_dir, cargadas>>
        /\ UNCHANGED <<sesionVars, matcherVars, listaVars, radioVars>>

\* cargar_flashcards(nombre_archivo), the whole call
Cargar(fallo) ==
    LET exc == ErrorDeLectura(archivo, fallo)
        escapa == exc # "" /\ ManejarErrorCarga(exc) = "raise"
    IN  /\ cargadas' = IF escapa THEN cargadas
                       ELSE IF exc # "" THEN <<>>
                       ELSE DatosCargados(archivo)
        /\ s_ultima' = [op |-> "cargar",
                        fallo |-> exc,
                        resultado |-> exc = "",
                        excepcion |-> IF escapa THEN exc ELSE "",
                        dir_antes |-> dir_existe,
                        escrito |-> FALSE,
                        args |-> <<>>]
        /\ UNCHANGED <<deck, archivo, dir_existe, ruta_con_dir, guardado>>
        /\ UNCHANGED <<sesionVars, matcherVars, listaVars, radioVars>>

NextStore ==
    \/ \E pregunta \in TextosPregunta, respuesta \in TextosRespuesta,
          categoria \in TextosCategoria :
            CrearFlashcard(pregunta, respuesta, categoria)
    \/ \E fallo \in FallosGuardado : Guardar(fallo)
    \/ \E fallo \in ErroresCarga : Cargar(fallo)

SpecStore == InitStore /\ [][NextStore]_vars

\* ---------------------------------------------------- the shopping list
InitLista ==
    /\ deck = <<>>
    /\ deck_es_lista = TRUE
    /\ archivo = Ausente
    /\ QuizIdle
    /\ MatcherIdle
    /\ StoreIdle
    /\ ListaIdle
    /\ RadioIdle

\* agregar_item(lista, nombre, precio, cantidad)
AgregarItem(nombre, precio, cantidad) ==
    /\ Len(lista) < MaxItems
    /\ \E r \in agregar_item(lista, nombre, precio, cantidad) :
            /\ lista' = r.lista
            /\ l_ultima' = [op |-> "agregar",
                            args |-> [nombre |-> nombre, precio |-> precio,
                                      cantidad |-> cantidad, indice |-> 0],
                            excepcion |-> r.excepcion,
                            total |-> 0]
    /\ UNCHANGED <<quizVars, matcherVars, storeVars, menuVars, radioVars>>

\* eliminar_item(lista, indice)
EliminarItem(indice) ==
    /\ LET r == eliminar_item(lista, indice)
       IN  /\ lista' = r.lista
           /\ l_ultima' = [op |-> "eliminar",
                           args |-> [nombre |-> <<>>, precio |-> 0,
                                     cantidad |-> 0, indice |-> indice],
                           excepcion |-> r.excepcion,
                           total |-> 0]
    /\ UNCHANGED <<quizVars, matcherVars, storeVars, menuVars, radioVars>>

\* calcular_total(lista)
CalcularTotal ==
    /\ LET r == calcular_total(lista)
       IN  /\ lista' = r.lista
           /\ l_ultima' = [op |-> "total", args |-> NoArgs, excepcion |-> "",
                           total |-> r.total]
    /\ UNCHANGED <<quizVars, matcherVars, storeVars, menuVars, radioVars>>

Indices == (0 - MaxItems - 1)..(MaxItems + 1)

NextLista ==
    \/ \E nombre \in Nombres, precio \in Precios, cantidad \in Cantidades :
            AgregarItem(nombre, precio, cantidad)
    \/ \E indice \in Indices : EliminarItem(indice)
    \/ CalcularTotal

SpecLista == InitLista /\ [][NextLista]_vars

\* ------------------------------------------------- the shopping-list menu
MaxDescuentos == 2

\* round(x, 2) of a price given in hundredths of a thousandth: the results
\* the float arithmetic can give, in thousandths
RedondeoFino(x) ==
    LET abajo == (x \div 1000) * 10
        resto == x % 1000
    IN  IF resto < 500 THEN {abajo}
        ELSE IF resto > 500 THEN {abajo + 10}
        ELSE {abajo, abajo + 10}

\* aplicar_descuento(item, porcentaje): the item afterwards
aplicar_descuento(item, porcentaje) ==
    {[item EXCEPT !.precio = p] :
        p \in RedondeoFino(item.precio * 100 - item.precio * porcentaje)}

\* lista[indice]: the 1-based position Python reads, 0 for an IndexError
PosicionPython(l, indice) ==
    IF indice >= Len(l) \/ indice < 0 - Len(l) THEN 0
    ELSE IF indice >= 0 THEN indice + 1
    ELSE Len(l) + indice + 1

\* the except clauses of main's loop: the message printed for an exception
InformeDe(excepcion) ==
    IF excepcion = "" THEN ""
    ELSE IF excepcion = "ValueError" THEN "valor"
    ELSE IF excepcion = "IndexError" THEN "indice"
    ELSE "inesperado"

NombreEntrado == <<"a">>
PreciosEntrados == {TextoNoNum, TextoNum(-1500), TextoNum(1005), TextoNum(1500)}
CantidadesEntradas == {TextoNoNum, TextoNum(0), TextoNum(2)}
NumerosEntrados == {TextoNoNum} \cup {TextoNum(v) : v \in (0 - MaxItems)..(MaxItems + 1)}
PorcentajesEntrados == {TextoNoNum, TextoNum(10), TextoNum(150)}

\* main(): lista = cargar_lista() with no file on disk
InitMenu ==
    /\ deck = <<>>
    /\ deck_es_lista = TRUE
    /\ archivo = Ausente
    /\ QuizIdle
    /\ MatcherIdle
    /\ StoreIdle
    /\ RadioIdle
    /\ lista = <<>>
    /\ l_ultima = NoLlamadaLista
    /\ menu = "activo"
    /\ lista_archivo = NoArchivoLista
    /\ descuentos = 0
    /\ menu_ultima = NoIteracion

\* option 1
MenuAgregar(precio, cantidad) ==
    /\ menu = "activo"
    /\ Len(lista) < MaxItems
    /\ \E r \in (IF ~precio.numerico \/ ~cantidad.numerico
                 THEN {[excepcion |-> "ValueError", lista |-> lista]}
                 ELSE agregar_item(lista, NombreEntrado, precio.valor, cantidad.valor)) :
            /\ lista' = r.lista
            /\ menu_ultima' = [NoIteracion EXCEPT !.opcion = "1",
                                                  !.informe = InformeDe(r.excepcion)]
    /\ UNCHANGED <<menu, lista_archivo, descuentos, l_ultima>>
    /\ UNCHANGED <<quizVars, matcherVars, storeVars, radioVars>>

\* option 3
MenuEliminar(numero) ==
    /\ menu = "activo"
    /\ LET r == IF lista = <<>> THEN [excepcion |-> "", lista |-> lista]
                ELSE IF ~numero.numerico
                     THEN [excepcion |-> "ValueError", lista |-> lista]
                ELSE eliminar_item(lista, numero.valor - 1)
       IN  /\ lista' = r.lista
           /\ menu_ultima' = [NoIteracion EXCEPT !.opcion = "3",
                                                 !.numero = numero,
                                                 !.informe = InformeDe(r.excepcion)]
    /\ UNCHANGED <<menu, lista_archivo, descuentos, l_ultima>>
    /\ UNCHANGED <<quizVars, matcherVars, storeVars, radioVars>>

\* option 4
MenuDescuento(numero, porcentaje) ==
    /\ menu = "activo"
    /\ descuentos < MaxDescuentos
    /\ LET pos == PosicionPython(lista, numero.valor - 1)
           aplicado == /\ lista # <<>>
                       /\ numero.numerico
                       /\ porcentaje.numerico
                       /\ pos # 0
           excepcion == IF lista = <<>> THEN ""
                        ELSE IF ~numero.numerico \/ ~porcentaje.numerico
                             THEN "ValueError"
                        ELSE IF pos = 0 THEN "IndexError"
                        ELSE ""
       IN  /\ IF aplicado
              THEN /\ \E item \in aplicar_descuento(lista[pos], porcentaje.valor) :
                          lista' = [lista EXCEPT ![pos] = item]
                   /\ descuentos' = descuentos + 1
              ELSE UNCHANGED <<lista, descuentos>>
           /\ menu_ultima' = [NoIteracion EXCEPT !.opcion = "4",
                                                 !.numero = numero,
                                                 !.porcentaje = porcentaje,
                                                 !.informe = InformeDe(excepcion)]
    /\ UNCHANGED <<menu, lista_archivo, l_ultima>>
    /\ UNCHANGED <<quizVars, matcherVars, storeVars, radioVars>>

\* options 2 and 5: the list is shown or its total printed
MenuTotal(opcion) ==
    /\ menu = "activo"
    /\ LET r == calcular_total(lista)
       IN  /\ lista' = r.lista
           /\ menu_ultima' = [NoIteracion EXCEPT !.opcion = opcion,
                                                 !.total = r.total]
    /\ UNCHANGED <<menu, lista_archivo, descuentos, l_ultima>>
    /\ UNCHANGED <<quizVars, matcherVars, storeVars, radioVars>>

\* options 6 and 7: guardar_lista swallows the IOError of a failed write
MenuSalir(opcion, fallo) ==
    /\ menu = "activo"
    /\ menu' = "terminado"
    /\ lista_archivo' = IF opcion = "6" /\ ~fallo
                        THEN [existe |-> TRUE, items |-> lista]
                        ELSE lista_archivo
    /\ menu_ultima' = [NoIteracion EXCEPT !.opcion = opcion]
    /\ UNCHANGED <<lista, descuentos, l_ultima>>
    /\ UNCHANGED <<quizVars, matcherVars, storeVars, radioVars>>

\* any other text
MenuOpcionInvalida ==
    /\ menu = "activo"
    /\ menu_ultima' = [NoIteracion EXCEPT !.opcion = "otra"]
    /\ UNCHANGED <<menu, lista, lista_archivo, descuentos, l_ultima>>
    /\ UNCHANGED <<quizVars, matcherVars, storeVars, radioVars>>

NextMenu ==
    \/ \E precio \in PreciosEntrados, cantidad \in CantidadesEntradas :
            MenuAgregar(precio, cantidad)
    \/ \E numero \in NumerosEntrados : MenuEliminar(numero)
    \/ \E numero \in NumerosEntrados, porcentaje \in PorcentajesEntrados :
            MenuDescuento(numero, porcentaje)
    \/ \E opcion \in {"2", "5"} : MenuTotal(opcion)
    \/ \E opcion \in {"6", "7"}, fallo \in BOOLEAN : MenuSalir(opcion, fallo)
    \/ MenuOpcionInvalida

SpecMenu == InitMenu /\ [][NextMenu]_vars

\* ------------------------------------------------- the circle-area prompt
intentos_maximos == 3

\* a float as a multiple of pi plus a rational part
Numero(pi, uno) == [tipo |-> "float", pi |-> pi, uno |-> uno]

None == [tipo |-> "None", pi |-> 0, uno |-> 0]

\* calcular_area_circulo(radio)
calcular_area_circulo(radio) ==
    IF radio < 0 THEN [excepcion |-> "ValueError", valor |-> None]
    ELSE [excepcion |-> "", valor |-> Numero(radio * radio, 0)]

RadiosEntrados == {TextoNoNum} \cup {TextoNum(v) : v \in (0 - 3)..3}

InitRadio ==
    /\ deck = <<>>
    /\ deck_es_lista = TRUE
    /\ archivo = Ausente
    /\ QuizIdle
    /\ MatcherIdle
    /\ StoreIdle
    /\ ListaIdle
    /\ r_pc = "pidiendo"
    /\ r_intento = 1
    /\ r_entradas = <<>>
    /\ r_retorno = NoRetorno

\* one pass of the while loop: input, float, calcular_area_circulo
PedirRadio(texto) ==
    /\ r_pc = "pidiendo"
    /\ r_intento <= intentos_maximos
    /\ r_entradas' = Append(r_entradas, texto)
    /\ LET r == IF ~texto.numerico THEN [excepcion |-> "ValueError", valor |-> None]
                ELSE calcular_area_circulo(texto.valor)
       IN  IF r.excepcion = ""
           THEN /\ r_pc' = "retornado"
                /\ r_retorno' = r.valor
                /\ UNCHANGED r_intento
           ELSE /\ r_intento' = r_intento + 1
                /\ UNCHANGED <<r_pc, r_retorno>>
    /\ UNCHANGED <<quizVars, matcherVars, storeVars, listaVars>>

\* the loop condition fails: the function gives up
AgotarIntentos ==
    /\ r_pc = "pidiendo"
    /\ r_intento > intentos_maximos
    /\ r_pc' = "retornado"
    /\ r_retorno' = None
    /\ UNCHANGED <<r_intento, r_entradas>>
    /\ UNCHANGED <<quizVars, matcherVars, storeVars, listaVars>>

NextRadio ==
    \/ \E texto \in RadiosEntrados : PedirRadio(texto)
    \/ AgotarIntentos

SpecRadio == InitRadio /\ [][NextRadio]_vars

TypeOK ==
    /\ estado \in {"NotStarted", "ValidationFailed", "InProgress", "Completed",
                   "Aborted", "Propagated"}
    /\ pc \in {"inicio", "presentar", "esperando", "fin"}
    /\ i \in 0..MaxDeck
    /\ puntuacion_total \in 0..(2 * MaxDeck)

\* =============================================================== claims
\* the canonical answer of the question being asked
RespuestaActual == deck_mezclado[i].kv["respuesta"].s

\* C1: for every question presented by ejecutar_pregunta at most two answers
\* are read; a second answer is read only if the first one did not match, and
\* no third answer is read for the same question.
C1_AtMostTwoAnswersRead ==
    /\ lecturas <= 2
    /\ (estado = "InProgress" /\ pc = "esperando" =>
            /\ lecturas <= 1
            /\ (lecturas = 1 =>
                    ~procesar_respuesta_usuario(primera, RespuestaActual)))
    /\ (ultima # NoResultado =>
            /\ ultima.leidas \in 1..2
            /\ (ultima.leidas = 2 =>
                    ~procesar_respuesta_usuario(ultima.r1, ultima.respuesta)))

C1_Witness_SecondAnswerRead ==
    /\ ultima # NoResultado
    /\ ultima.leidas = 2
    /\ ultima.fue_correcta

\* C2: a question awards 1.0 point when the first answer matches, 0.5 point
\* when the first does not match and the second does, and 0.0 point when
\* neither matches; no other value is awarded (values in half points).
C2_PointsPerOutcome ==
    ultima # NoResultado =>
        LET m1 == procesar_respuesta_usuario(ultima.r1, ultima.respuesta)
            m2 == /\ ultima.leidas = 2
                  /\ procesar_respuesta_usuario(ultima.r2, ultima.respuesta)
        IN  /\ ultima.puntos \in {0, 1, 2}
            /\ (m1 => ultima.puntos = 2 /\ ultima.fue_correcta)
            /\ (~m1 /\ m2 => ultima.puntos = 1 /\ ultima.fue_correcta)
            /\ (~m1 /\ ~m2 => ultima.puntos = 0 /\ ~ultima.fue_correcta)

C2_Witness_HalfPoint ==
    /\ ultima # NoResultado
    /\ ultima.puntos = 1
    /\ ultima.r1 # ultima.r2

\* the trimmed part of s, by position: from its first to its last non-space
NoBlancos(s) == {k \in 1..Len(s) : ~EsEspacio(s[k])}

Minimo(S) == CHOOSE x \in S : \A y \in S : x <= y

Maximo(S) == CHOOSE x \in S : \A y \in S : x >= y

Recorte(s) ==
    IF NoBlancos(s) = {} THEN <<>>
    ELSE SubSeq(s, Minimo(NoBlancos(s)), Maximo(NoBlancos(s)))

MismaLetra(a, b) == a = b \/ {a, b} = {"a", "A"}

IgualSinCaja(s, t) ==
    /\ Len(s) = Len(t)
    /\ \A k \in 1..Len(s) : MismaLetra(s[k], t[k])

\* C3: procesar_respuesta_usuario(candidate, canonical) is true exactly when
\* the two strings are equal after trimming leading/trailing whitespace and
\* ignoring case; a proper substring or superstring of the canonical answer
\* does not match.
C3_ExactMatchAfterNormalisation ==
    m_pc = "done" =>
        /\ m_resultado = IgualSinCaja(Recorte(m_usuario), Recorte(m_correcta))
        /\ (Len(Recorte(m_usuario)) # Len(Recorte(m_correcta)) => ~m_resultado)

C3_Witness_MatchUpToCaseAndPadding ==
    /\ m_pc = "done"
    /\ m_resultado
    /\ Len(m_usuario) # Len(m_correcta)
    /\ Lower(m_usuario) # m_usuario

\* a card is invalid when question, answer or category is missing or empty
\* after trimming
CartaInvalida(c) ==
    \/ ~c.es_dict
    \/ \E campo \in {"pregunta", "respuesta", "categoria"} :
            \/ ~Tiene(c, campo)
            \/ ~EsStrNoVacio(c.kv[campo])

IndicesInvalidos(d) == {k \in 1..Len(d) : CartaInvalida(d[k])}

\* C4: deck validation fails for the first (lowest-index) invalid card, a card
\* being invalid if question, answer or category is missing or empty after
\* trimming; such a deck never starts a quiz and no answer is read.
C4_FirstInvalidCardRejected ==
    (estado # "NotStarted" /\ deck_es_lista /\ IndicesInvalidos(deck) # {}) =>
        /\ estado = "ValidationFailed"
        /\ error.indice = Minimo(IndicesInvalidos(deck)) - 1
        /\ presentadas = <<>>
        /\ lecturas_total = 0

C6_SkippedExcludedFromTotal ==
    estado = "Completed" =>
        /\ resumen.total_preguntas = Len(presentadas) - omitidas
        /\ resumen.incorrectas =
              resumen.total_preguntas - resumen.correctas
                  - resumen.parcialmente_correctas

\* C7: an exception other than KeyboardInterrupt while scoring one question
\* does not abort the session: points and counters are kept, the loop goes on
\* to the next question, every card is presented and the summary is produced.
C7_ErrorSkipsOnlyThatQuestion ==
    [][/\ (omitidas' > omitidas =>
              /\ puntuacion_total' = puntuacion_total
              /\ correctas_primer_intento' = correctas_primer_intento
              /\ correctas_segundo_intento' = correctas_segundo_intento
              /\ IF i < total_preguntas
                 THEN estado' = "InProgress" /\ i' = i + 1 /\ pc' = "presentar"
                 ELSE /\ estado' = "Completed"
                      /\ resumenes' = resumenes + 1
                      /\ resumen'.puntuacion_total = puntuacion_total)
       /\ (omitidas' > 0 /\ estado' = "Completed" =>
              /\ presentadas' = deck_mezclado'
              /\ resumenes' = 1)
      ]_vars

C7_Witness_CompletedAfterError ==
    /\ estado = "Completed"
    /\ omitidas > 0
    /\ puntuacion_total > 0
    /\ Len(presentadas) = total_preguntas

\* C8: a KeyboardInterrupt raised while waiting for an answer aborts the
\* session at once: afterwards no question is presented and no answer is read,
\* and iniciar_quiz returns instead of propagating the interrupt.
C8_InterruptAborts ==
    [][/\ (interrumpido' /\ ~interrumpido =>
              /\ estado' = "Aborted"
              /\ presentadas' = presentadas
              /\ lecturas_total' = lecturas_total)
       /\ (interrumpido =>
              /\ estado' = "Aborted"
              /\ presentadas' = presentadas
              /\ lecturas_total' = lecturas_total)
      ]_vars

C8_Witness_AbortedMidSession ==
    /\ interrumpido
    /\ estado = "Aborted"
    /\ i < total_preguntas
    /\ lecturas_total > 0

\* C9: a session, whether it completes, is aborted or fails validation, leaves
\* the caller's deck unchanged (same cards, same order) and never writes the
\* on-disk deck file.
C9_DeckAndFileUnchanged ==
    [][deck' = deck /\ archivo' = archivo]_vars

C9_Witness_ShuffledCopyDiffers ==
    /\ estado \in {"Completed", "Aborted"}
    /\ deck_mezclado # deck
    /\ archivo = Serializar(deck)

Rango(s) == {s[k] : k \in 1..Len(s)}

\* the cards of s with their multiplicities
BolsaDe(s) == [c \in Rango(s) |-> Cardinality({k \in 1..Len(s) : s[k] = c})]

\* C10: the order of play is a permutation of the validated deck fixed once at
\* session start; in a session that runs to completion every card is
\* presented exactly once.
C10_PlayOrderIsPermutation ==
    [][/\ (estado = "InProgress" => deck_mezclado' = deck_mezclado)
       /\ (estado' \in {"InProgress", "Completed"} =>
              BolsaDe(deck_mezclado') = BolsaDe(deck'))
       /\ (estado' = "Completed" =>
              /\ Len(presentadas') = Len(deck')
              /\ BolsaDe(presentadas') = BolsaDe(deck'))
      ]_vars

C10_Witness_AllCardsPresented ==
    /\ estado = "Completed"
    /\ Len(presentadas) >= 2
    /\ presentadas[1] = deck[2]
    /\ presentadas[1] # presentadas[2]

\* the last store call was a load on which the system calls did not fail
CargaSinFallo == s_ultima.op = "cargar" /\ s_ultima.fallo = ""

\* C11: loading a deck file accepts both storage formats, a bare JSON array of
\* flashcard objects and a JSON object whose `cards` field holds that array;
\* for the same cards both forms load to the same deck.
C11_BothFormatsLoad ==
    (CargaSinFallo /\ archivo.tipo \in {"lista", "sobre"}) =>
        cargadas = DatosCargados(JLista(archivo.items))

\* an entry is well formed when it is an object with the three required fields
BienFormada(item) ==
    /\ item.es_dict
    /\ {"pregunta", "respuesta", "categoria"} \subseteq DOMAIN item.kv

IndicesBienFormados(items) == {k \in 1..Len(items) : BienFormada(items[k])}

\* r holds exactly the well-formed entries of items, in their relative order
EsFiltradoDe(r, items) ==
    LET idx == IndicesBienFormados(items)
    IN  /\ Len(r) = Cardinality(idx)
        /\ \A k \in idx : r[Cardinality({j \in idx : j <= k})] = items[k]

\* C12: when the array of a deck file contains entries that lack a required
\* field or are not objects, exactly those entries are dropped and the load
\* succeeds: the returned deck is all well-formed entries, in their order.
C12_MalformedEntriesDropped ==
    (CargaSinFallo /\ archivo.tipo = "lista") =>
        /\ s_ultima.excepcion = ""
        /\ EsFiltradoDe(cargadas, archivo.items)

C12_Witness_SomeDroppedSomeKept ==
    /\ CargaSinFallo
    /\ archivo.tipo = "lista"
    /\ Len(archivo.items) >= 2
    /\ ~BienFormada(archivo.items[1])
    /\ Len(cargadas) >= 1

C14_SaveReturnsFlag ==
    s_ultima.op = "guardar" =>
        /\ s_ultima.excepcion = ""
        /\ (s_ultima.fallo # "" => ~s_ultima.resultado)
        /\ (s_ultima.fallo = "" =>
                /\ s_ultima.resultado
                /\ archivo.tipo \in {"lista", "sobre"}
                /\ archivo.items = deck
                /\ (ruta_con_dir => dir_existe))
        /\ (s_ultima.resultado <=> s_ultima.escrito)

C14_Witness_DirectoryCreated ==
    /\ s_ultima.op = "guardar"
    /\ ruta_con_dir
    /\ ~s_ultima.dir_antes
    /\ dir_existe
    /\ s_ultima.resultado
    /\ archivo.items = deck
    /\ deck # <<>>

\* C15: saving a deck writes the enveloped file form: an object with a
\* metadata part (schema version, card count equal to the number of cards)
\* and a `cards` array holding the deck.
C15_SaveWritesEnvelope ==
    (s_ultima.op = "guardar" /\ s_ultima.resultado) =>
        /\ archivo.tipo = "sobre"
        /\ archivo.meta.version # ""
        /\ archivo.meta.card_count = Len(deck)
        /\ archivo.items = deck

NoEsBlanco(t) == NoBlancos(t) # {}

\* C16: for (question, answer, category) triples that are non-empty after
\* trimming crear_flashcard succeeds, and saving a deck of such cards then
\* loading it from the same path returns an equal deck (same cards, same
\* order, no explanation field added).
C16_SaveLoadRoundTrip ==
    /\ (s_ultima.op = "crear" =>
            /\ (s_ultima.resultado <=> \A k \in 1..3 : NoEsBlanco(s_ultima.args[k]))
            /\ (s_ultima.resultado =>
                    LET carta == deck[Len(deck)]
                    IN  /\ DOMAIN carta.kv = {"pregunta", "respuesta", "categoria"}
                        /\ carta.kv["pregunta"].s = Recorte(s_ultima.args[1])
                        /\ carta.kv["respuesta"].s = Recorte(s_ultima.args[2])
                        /\ carta.kv["categoria"].s = Recorte(s_ultima.args[3])))
    /\ (CargaSinFallo /\ guardado.ok =>
            /\ cargadas = guardado.deck
            /\ \A k \in 1..Len(cargadas) : ~Tiene(cargadas[k], "explicacion"))

C16_Witness_TwoCardsRoundTripped ==
    /\ CargaSinFallo
    /\ guardado.ok
    /\ Len(cargadas) = 2
    /\ cargadas[1] # cargadas[2]
    /\ cargadas = deck

\* C17: every flashcard of a deck, created by the store on load or by
\* crear_flashcard, has a question and an answer that are non-empty after
\* trimming; so every non-empty deck returned by cargar_flashcards passes the
\* quiz's deck validation.
C17_LoadedCardsAreValid ==
    /\ \A k \in 1..Len(deck) :
            /\ EsStrNoVacio(deck[k].kv["pregunta"])
            /\ EsStrNoVacio(deck[k].kv["respuesta"])
    /\ (s_ultima.op = "cargar" /\ cargadas # <<>> =>
            /\ \A k \in 1..Len(cargadas) :
                    /\ EsStrNoVacio(cargadas[k].kv["pregunta"])
                    /\ EsStrNoVacio(cargadas[k].kv["respuesta"])
            /\ ValidarDeck(cargadas, TRUE) = NoError)

DeckValido == ValidarDeck(deck, deck_es_lista) = NoError

\* C18: a session follows NotStarted -> InProgress -> Completed, or Aborted
\* when interrupted mid-session (a deck that fails validation never leaves
\* NotStarted for InProgress); the final summary is produced only in Completed
\* and exactly once; Completed and Aborted are terminal; for a valid deck of n
\* cards the session always reaches Completed or Aborted, after reading at
\* most 2n answers.
C18_SessionLifecycle ==
    /\ [][/\ (estado = "NotStarted" =>
                estado' \in {"NotStarted", "InProgress", "ValidationFailed"})
          /\ (estado = "InProgress" =>
                estado' \in {"InProgress", "Completed", "Aborted"})
          /\ (estado \in {"Completed", "Aborted", "ValidationFailed"} =>
                estado' = estado /\ resumenes' = resumenes)
          /\ (estado' = "InProgress" => DeckValido)
          /\ resumenes' >= resumenes
         ]_vars
    /\ [](/\ resumenes = (IF estado = "Completed" THEN 1 ELSE 0)
          /\ (estado = "Aborted" <=> interrumpido)
          /\ lecturas_total <= 2 * Len(deck))
    /\ ((estado = "NotStarted" /\ DeckValido) ~> estado \in {"Completed", "Aborted"})

C18_Witness_CompletedWithAllAttempts ==
    /\ estado = "Completed"
    /\ resumenes = 1
    /\ Len(deck) = 2
    /\ lecturas_total = 2 * Len(deck)

\* C19: agregar_item appends exactly one item at the end of the list, leaving
\* the existing items unchanged, if and only if precio >= 0 and cantidad >= 1;
\* otherwise it raises ValueError and the list is left unchanged.
C19_AgregarItem ==
    [][l_ultima'.op = "agregar" =>
          LET a == l_ultima'.args
          IN  IF a.precio >= 0 /\ a.cantidad >= 1
              THEN /\ l_ultima'.excepcion = ""
                   /\ Len(lista') = Len(lista) + 1
                   /\ SubSeq(lista', 1, Len(lista)) = lista
              ELSE /\ l_ultima'.excepcion = "ValueError"
                   /\ lista' = lista
      ]_vars

C19_Witness_AppendedToNonEmptyList ==
    /\ l_ultima.op = "agregar"
    /\ l_ultima.excepcion = ""
    /\ Len(lista) = 2
    /\ lista[1] # lista[2]
    /\ lista[2].cantidad = l_ultima.args.cantidad

\* C20: eliminar_item(lista, indice) removes exactly the item at position
\* indice and keeps the others in their order when 0 <= indice < len(lista);
\* for any other index it raises IndexError and the list is left unchanged.
C20_EliminarItem ==
    [][l_ultima'.op = "eliminar" =>
          LET ind == l_ultima'.args.indice
          IN  IF 0 <= ind /\ ind < Len(lista)
              THEN /\ l_ultima'.excepcion = ""
                   /\ Len(lista') = Len(lista) - 1
                   /\ \A k \in 1..Len(lista') :
                          lista'[k] = lista[IF k <= ind THEN k ELSE k + 1]
              ELSE /\ l_ultima'.excepcion = "IndexError"
                   /\ lista' = lista
      ]_vars

C20_Witness_FirstItemRemoved ==
    /\ l_ultima.op = "eliminar"
    /\ l_ultima.excepcion = ""
    /\ l_ultima.args.indice = 0
    /\ Len(lista) = 1

\* the items of l equal to v
Apariciones(l, v) == Cardinality({k \in 1..Len(l) : l[k] = v})

RECURSIVE SumaDeConjunto(_, _)
\* the sum of v.precio * v.cantidad * (occurrences of v in l) over v in S
SumaDeConjunto(S, l) ==
    IF S = {} THEN 0
    ELSE LET v == CHOOSE x \in S : TRUE
         IN  v.precio * v.cantidad * Apariciones(l, v) + SumaDeConjunto(S \ {v}, l)

\* C21: calcular_total(lista) equals the sum over all items of
\* precio * cantidad, is 0 for the empty list, and does not modify the list.
C21_CalcularTotal ==
    [][l_ultima'.op = "total" =>
          /\ lista' = lista
          /\ l_ultima'.total = SumaDeConjunto(Rango(lista), lista)
          /\ (lista = <<>> => l_ultima'.total = 0)
      ]_vars

C21_Witness_TotalOfTwoItems ==
    /\ l_ultima.op = "total"
    /\ Len(lista) = 2
    /\ lista[1].cantidad = 2
    /\ lista[2].precio > 0
    /\ l_ultima.total = lista[1].precio * 2 + lista[2].precio * lista[2].cantidad
    /\ l_ultima.total > lista[1].precio + lista[2].precio

\* questions whose turn is over: scored, or skipped by an error
Procesadas ==
    IF estado = "Completed" THEN total_preguntas
    ELSE IF estado \in {"InProgress", "Aborted", "Propagated"} THEN i - 1
    ELSE 0

\* C23: in every reachable state of a session the total points equal
\* (first-attempt-correct) + 0.5 x (second-attempt-correct), both counters
\* only ever increase, their sum never exceeds the number of questions
\* processed so far, and the Incorrect count of the summary is never negative.
C23_CountersMatchPoints ==
    /\ [](/\ puntuacion_total =
                PuntosPrimerIntento * correctas_primer_intento
                    + PuntosSegundoIntento * correctas_segundo_intento
          /\ correctas_primer_intento + correctas_segundo_intento <= Procesadas
          /\ (estado = "Completed" =>
                /\ resumen.incorrectas >= 0
                /\ resumen.puntuacion_total =
                      2 * resumen.correctas + resumen.parcialmente_correctas))
    /\ [][/\ correctas_primer_intento' >= correctas_primer_intento
          /\ correctas_segundo_intento' >= correctas_segundo_intento
         ]_vars

C23_Witness_BothCountersUsed ==
    /\ estado = "Completed"
    /\ correctas_primer_intento = 1
    /\ correctas_segundo_intento = 1
    /\ resumen.incorrectas = 0
    /\ puntuacion_total = 3

\* the last text read is a valid radius: numeric and not negative
UltimaEntradaValida ==
    /\ r_entradas # <<>>
    /\ r_entradas[Len(r_entradas)].numerico
    /\ r_entradas[Len(r_entradas)].valor >= 0

\* C22: obtener_radio_valido prompts until a valid radius (numeric and
\* non-negative) is entered and then returns that valid radius; it never
\* returns without a valid input having been entered.
C22_ReturnsTheValidRadius ==
    r_pc = "retornado" =>
        /\ UltimaEntradaValida
        /\ r_retorno = Numero(0, r_entradas[Len(r_entradas)].valor)

\* every item of the list has precio >= 0 and cantidad >= 1
ItemsValidos(l) ==
    \A k \in 1..Len(l) : l[k].precio >= 0 /\ l[k].cantidad >= 1

\* C24: starting from a list whose items all have precio >= 0 and
\* cantidad >= 1, after any sequence of menu operations (add, delete,
\* discount with any entered percentage) every item still has precio >= 0
\* and cantidad >= 1.
C24_ItemsStayValid == ItemsValidos(lista)

\* the menu iteration just run asked for an item number and was given a
\* number outside 1..len(lista), everything else typed being well formed
NumeroFueraDeRango ==
    /\ menu_ultima'.opcion \in {"3", "4"}
    /\ lista # <<>>
    /\ menu_ultima'.numero.numerico
    /\ menu_ultima'.numero.valor \notin 1..Len(lista)
    /\ (menu_ultima'.opcion = "4" => menu_ultima'.porcentaje.numerico)

\* C25: the delete option and the discount option treat the entered item
\* number the same way: a number outside 1..len(lista), 0 and negative
\* numbers included, modifies no item, is reported as an index error, and
\* the menu loop continues.
C25_OutOfRangeNumberIsAnIndexError ==
    [][NumeroFueraDeRango =>
          /\ lista' = lista
          /\ menu_ultima'.informe = "indice"
          /\ menu' = "activo"
      ]_vars
====
